---- MODULE Spec2Model ----
(***************************************************************************)
(* Model of ibmiotf/__init__.py: broker address resolution, the MQTT       *)
(* AbstractClient (connect / disconnect, the paho callbacks on_connect,    *)
(* on_disconnect and on_publish, the publish-callback registry, the        *)
(* message encoder registry, the keep-alive accessors) and the             *)
(* HttpAbstractClient encoder registry.                                    *)
(*                                                                         *)
(* Two threads touch an AbstractClient: the caller's thread (callerPc) and *)
(* the transport's background loop thread (cbPc), which delivers the       *)
(* callbacks while the loop runs.                                          *)
(***************************************************************************)
EXTENDS Naturals, Sequences, FiniteSets

VARIABLES
    inDomain, inOrg, inUrl, \* arguments of _getBrokerAddress
    addrResult,             \* outcome of _getBrokerAddress
    address,                \* self.address
    keepAlive,              \* self.keepAlive
    connectEvent,           \* self.connectEvent (threading.Event flag)
    loopRunning,            \* the transport's background loop thread is alive
    sock,                   \* the transport's connection: closed/open/up/closing
    callerPc,               \* position of the caller's thread
    waited,                 \* time units spent in connectEvent.wait(timeout=30)
    attempts,               \* client.connect() calls made by the current connect()
    onConnectSeen,          \* on_connect ran since the current connect() began
    lastOutcome,            \* how the caller's last connect()/disconnect() ended
    messagesLock,           \* owner of self._messagesLock
    messages,               \* self.messages
    onPublishCallbacks,     \* self._onPublishCallbacks (dict)
    cbPc, cbMid,            \* position and argument of on_publish
    cbFound,                \* on_publish: result of "mid in self._onPublishCallbacks"
    cbError,                \* on_publish raised (TypeError: None is not callable)
    callerMid, callerCb,    \* arguments of registerOrInvoke
    callerFound,            \* registerOrInvoke: the sentinel was found
    invoked,                \* callback id -> number of invocations
    regOf,                  \* mid -> callbacks registered under it, in order
    ackCount,               \* mid -> acknowledgements delivered
    messageEncoderModules,  \* AbstractClient._messageEncoderModules
    httpEncoderModules,     \* HttpAbstractClient._messageEncoderModules
    lookup                  \* outcome of the last getMessageEncoderModule

addrVars == <<inDomain, inOrg, inUrl, addrResult>>
connVars == <<connectEvent, loopRunning, sock, waited, attempts, onConnectSeen, lastOutcome>>
pubVars == <<messagesLock, messages, onPublishCallbacks, cbPc, cbMid, cbFound, cbError,
             callerMid, callerCb, callerFound, invoked, regOf, ackCount>>
cbVars == <<cbPc, cbMid, cbFound, cbError>>
regVars == <<callerMid, callerCb, callerFound, regOf>>
codecVars == <<messageEncoderModules, httpEncoderModules, lookup>>
vars == <<addrVars, address, keepAlive, connVars, callerPc, pubVars, codecVars>>

----------------------------------------------------------------------------
(* Bounds of the model *)

MaxMid == 2       \* publish identifiers are 1..MaxMid
MaxAcks == 3      \* acknowledgements delivered in one behaviour
MaxRegs == 2      \* callback registrations made in one behaviour

(* the same three, for the behaviours that also connect and disconnect *)
MaxConnMid == 1
MaxConnAcks == 2
MaxConnRegs == 1

(* Program constants *)

ConnectTimeout == 30      \* connectEvent.wait(timeout=30)
DefaultKeepAlive == 60    \* keepAlive=60

Mids == 1..MaxMid
Callbacks == 1..MaxRegs
KeepAliveValues == {DefaultKeepAlive, 120}
Formats == {"json", "xml", "text"}
Modules == {"jsonCodec", "xmlCodec"}

----------------------------------------------------------------------------
(* Python values *)

None == [tag |-> "None"]
Callback(c) == [tag |-> "callback", id |-> c]
Str(s) == [tag |-> "str", val |-> s]
Truthy(v) == v # None /\ v.val # ""

(* dict operations *)
DictSet(d, k, v) == [x \in (DOMAIN d) \cup {k} |-> IF x = k THEN v ELSE d[x]]
DictDel(d, k) == [x \in (DOMAIN d) \ {k} |-> d[x]]
EmptyDict == [x \in {} |-> None]

----------------------------------------------------------------------------
(* _getBrokerAddress *)

WrongOrderAddress(domain, orgId, completeBrokerUrl) ==
    IF ~Truthy(completeBrokerUrl) /\ (~Truthy(domain) \/ ~Truthy(orgId))
    THEN [kind |-> "raised", exc |-> "ConfigurationException"]
    ELSE [kind |-> "returned",
          value |-> IF Truthy(completeBrokerUrl) THEN completeBrokerUrl.val
                    ELSE domain.val \o ".messaging." \o orgId.val]

getBrokerAddress(domain, orgId, completeBrokerUrl) ==
    IF ~Truthy(completeBrokerUrl) /\ (~Truthy(domain) \/ ~Truthy(orgId))
    THEN [kind |-> "raised", exc |-> "ConfigurationException"]
    ELSE [kind |-> "returned",
          value |-> IF Truthy(completeBrokerUrl) THEN completeBrokerUrl.val
                    ELSE orgId.val \o ".messaging." \o domain.val]

DomainArgs == {None, Str(""), Str("x.com"), Str("example.org")}
OrgArgs == {None, Str(""), Str("org1"), Str("org2")}
UrlArgs == {None, Str(""), Str("broker.local"), Str("org1.messaging.x.com")}

Pending == [kind |-> "pending"]

(* self.messages = 0, self._onPublishCallbacks = {}, self._messageEncoderModules = {},
   no call in progress *)
EmptyRegistries ==
    /\ messagesLock = "free"
    /\ messages = 0
    /\ onPublishCallbacks = EmptyDict
    /\ cbPc = "idle"
    /\ cbMid = 0
    /\ cbFound = FALSE
    /\ cbError = FALSE
    /\ callerMid = 0
    /\ callerCb = 0
    /\ callerFound = FALSE
    /\ invoked = [c \in Callbacks |-> 0]
    /\ regOf = [m \in Mids |-> <<>>]
    /\ ackCount = [m \in Mids |-> 0]
    /\ messageEncoderModules = EmptyDict
    /\ httpEncoderModules = EmptyDict
    /\ lookup = [kind |-> "none"]

(* the state of a module in which no client has been constructed *)
NoClient ==
    /\ address = ""
    /\ keepAlive = DefaultKeepAlive
    /\ connectEvent = FALSE
    /\ loopRunning = FALSE
    /\ sock = "closed"
    /\ callerPc = "idle"
    /\ waited = 0
    /\ attempts = 0
    /\ onConnectSeen = FALSE
    /\ lastOutcome = [kind |-> "none"]
    /\ EmptyRegistries

InitAddr ==
    /\ inDomain \in DomainArgs
    /\ inOrg \in OrgArgs
    /\ inUrl \in UrlArgs
    /\ addrResult = Pending
    /\ NoClient

ResolveAddress ==
    /\ addrResult = Pending
    /\ addrResult' = getBrokerAddress(inDomain, inOrg, inUrl)
    /\ UNCHANGED <<inDomain, inOrg, inUrl, address, keepAlive, connVars, callerPc,
                   pubVars, codecVars>>

NextAddr == ResolveAddress

SpecAddr == InitAddr /\ [][NextAddr]_vars

----------------------------------------------------------------------------
(* AbstractClient.__init__ *)

ClientArgs == {<<Str("x.com"), Str("org1"), None>>, <<None, None, Str("broker.local")>>}

Init ==
    /\ \E a \in ClientArgs :
         /\ inDomain = a[1]
         /\ inOrg = a[2]
         /\ inUrl = a[3]
         /\ addrResult = getBrokerAddress(a[1], a[2], a[3])
         /\ address = getBrokerAddress(a[1], a[2], a[3]).value
    /\ keepAlive = DefaultKeepAlive
    /\ connectEvent = FALSE
    /\ loopRunning = FALSE
    /\ sock = "closed"
    /\ callerPc = "idle"
    /\ waited = 0
    /\ attempts = 0
    /\ onConnectSeen = FALSE
    /\ lastOutcome = [kind |-> "none"]
    /\ EmptyRegistries

----------------------------------------------------------------------------
(* AbstractClient.connect, on the caller's thread *)

ConnectionException(parts) ==
    [kind |-> "raised", exc |-> "ConnectionException", reason |-> parts]

(* connect() returned; whether the caller had to wait, and less than the timeout *)
Returned(w) == [kind |-> "returned", blocked |-> w > 0, beforeTimeout |-> w < ConnectTimeout]

TimeoutReason(addr) ==
    <<"Operation timed out connecting to IBM Watson IoT Platform: ", addr>>

SocketErrorReason(addr, serr) ==
    <<"Failed to connect to IBM Watson IoT Platform: ", addr, " - ", serr>>

(* self.connectEvent.clear() *)
ConnectClear ==
    /\ callerPc = "idle"
    /\ connectEvent' = FALSE
    /\ callerPc' = "c_connect"
    /\ waited' = 0
    /\ attempts' = 0
    /\ onConnectSeen' = FALSE
    /\ lastOutcome' = [kind |-> "connecting"]
    /\ UNCHANGED <<addrVars, address, keepAlive, loopRunning, sock, pubVars, codecVars>>

(* self.client.connect(...): opens the socket, or raises socket.error *)
ConnectTransport ==
    /\ callerPc = "c_connect"
    /\ attempts' = attempts + 1
    /\ \/ sock' = "open" /\ callerPc' = "c_loop_start"
       \/ sock' = "closed" /\ callerPc' = "c_except"
    /\ UNCHANGED <<addrVars, address, keepAlive, connectEvent, loopRunning, waited,
                   onConnectSeen, lastOutcome, pubVars, codecVars>>

(* self.client.loop_start() *)
ConnectLoopStart ==
    /\ callerPc = "c_loop_start"
    /\ loopRunning' = TRUE
    /\ callerPc' = "c_wait"
    /\ UNCHANGED <<addrVars, address, keepAlive, connectEvent, sock, waited, attempts,
                   onConnectSeen, lastOutcome, pubVars, codecVars>>

(* connectEvent.wait(timeout=30): time passes while the flag is unset *)
ConnectWaitTick ==
    /\ callerPc = "c_wait"
    /\ ~connectEvent
    /\ waited < ConnectTimeout
    /\ waited' = waited + 1
    /\ UNCHANGED <<addrVars, address, keepAlive, connectEvent, loopRunning, sock, callerPc,
                   attempts, onConnectSeen, lastOutcome, pubVars, codecVars>>

(* the result of wait() is read the wrong way round *)
ConnectWaitInverted ==
    /\ callerPc = "c_wait"
    /\ connectEvent
    /\ callerPc' = "c_timeout"
    /\ UNCHANGED <<addrVars, address, keepAlive, connVars, pubVars, codecVars>>

(* wait() returns True: connect() returns *)
ConnectWaitSignalled ==
    /\ callerPc = "c_wait"
    /\ connectEvent
    /\ callerPc' = "idle"
    /\ lastOutcome' = Returned(waited)
    /\ waited' = 0
    /\ UNCHANGED <<addrVars, address, keepAlive, connectEvent, loopRunning, sock,
                   attempts, onConnectSeen, pubVars, codecVars>>

(* wait() without a timeout: the caller stays blocked *)
ConnectWaitForever ==
    /\ callerPc = "c_wait"
    /\ ~connectEvent
    /\ waited = ConnectTimeout
    /\ UNCHANGED vars

(* wait() returns False after the timeout *)
ConnectWaitTimeout ==
    /\ callerPc = "c_wait"
    /\ ~connectEvent
    /\ waited = ConnectTimeout
    /\ callerPc' = "c_timeout"
    /\ UNCHANGED <<addrVars, address, keepAlive, connectEvent, loopRunning, sock, waited,
                   attempts, onConnectSeen, lastOutcome, pubVars, codecVars>>

(* self.client.loop_stop() joins the loop thread, which first ends its callback *)
ConnectTimeoutStop ==
    /\ callerPc = "c_timeout"
    /\ cbPc = "idle"
    /\ loopRunning' = FALSE
    /\ callerPc' = "c_timeout_raise"
    /\ UNCHANGED <<addrVars, address, keepAlive, connectEvent, sock, waited, attempts,
                   onConnectSeen, lastOutcome, pubVars, codecVars>>

ConnectTimeoutRaise ==
    /\ callerPc = "c_timeout_raise"
    /\ lastOutcome' = ConnectionException(TimeoutReason(address))
    /\ callerPc' = "idle"
    /\ waited' = 0
    /\ UNCHANGED <<addrVars, address, keepAlive, connectEvent, loopRunning, sock,
                   attempts, onConnectSeen, pubVars, codecVars>>

(* the except branch raises without stopping the loop *)
ConnectExceptNoStop ==
    /\ callerPc = "c_except"
    /\ callerPc' = "c_except_raise"
    /\ UNCHANGED <<addrVars, address, keepAlive, connVars, pubVars, codecVars>>

(* except socket.error: self.client.loop_stop() *)
ConnectExceptStop ==
    /\ callerPc = "c_except"
    /\ cbPc = "idle"
    /\ loopRunning' = FALSE
    /\ callerPc' = "c_except_raise"
    /\ UNCHANGED <<addrVars, address, keepAlive, connectEvent, sock, waited, attempts,
                   onConnectSeen, lastOutcome, pubVars, codecVars>>

ConnectExceptRaise ==
    /\ callerPc = "c_except_raise"
    /\ lastOutcome' = ConnectionException(SocketErrorReason(address, "socket.error"))
    /\ callerPc' = "idle"
    /\ UNCHANGED <<addrVars, address, keepAlive, connectEvent, loopRunning, sock, waited,
                   attempts, onConnectSeen, pubVars, codecVars>>

ConnectStep ==
    \/ ConnectTransport
    \/ ConnectLoopStart
    \/ ConnectWaitTick
    \/ ConnectWaitSignalled
    \/ ConnectWaitTimeout
    \/ ConnectTimeoutStop
    \/ ConnectTimeoutRaise
    \/ ConnectExceptStop
    \/ ConnectExceptRaise

----------------------------------------------------------------------------
(* AbstractClient.disconnect, on the caller's thread *)

(* disconnect() also clears the connected-condition *)
DisconnectClearsEvent ==
    /\ callerPc = "idle"
    /\ sock' = IF sock \in {"open", "up"} THEN "closing" ELSE sock
    /\ connectEvent' = FALSE
    /\ callerPc' = "d_stop"
    /\ lastOutcome' = [kind |-> "disconnecting"]
    /\ UNCHANGED <<addrVars, address, keepAlive, loopRunning, waited, attempts,
                   onConnectSeen, pubVars, codecVars>>

(* self.client.disconnect() *)
DisconnectTransport ==
    /\ callerPc = "idle"
    /\ sock' = IF sock \in {"open", "up"} THEN "closing" ELSE sock
    /\ callerPc' = "d_stop"
    /\ lastOutcome' = [kind |-> "disconnecting"]
    /\ UNCHANGED <<addrVars, address, keepAlive, connectEvent, loopRunning, waited,
                   attempts, onConnectSeen, pubVars, codecVars>>

(* disconnect() returns without stopping the loop *)
DisconnectNoLoopStop ==
    /\ callerPc = "d_stop"
    /\ callerPc' = "idle"
    /\ lastOutcome' = [kind |-> "disconnected"]
    /\ UNCHANGED <<addrVars, address, keepAlive, connectEvent, loopRunning, sock, waited,
                   attempts, onConnectSeen, pubVars, codecVars>>

(* self.client.loop_stop() *)
DisconnectLoopStop ==
    /\ callerPc = "d_stop"
    /\ cbPc = "idle"
    /\ loopRunning' = FALSE
    /\ callerPc' = "idle"
    /\ lastOutcome' = [kind |-> "disconnected"]
    /\ UNCHANGED <<addrVars, address, keepAlive, connectEvent, sock, waited, attempts,
                   onConnectSeen, pubVars, codecVars>>

----------------------------------------------------------------------------
(* keep-alive accessors *)

setKeepAliveInterval(newKeepAliveInterval) ==
    /\ callerPc = "idle"
    /\ keepAlive # newKeepAliveInterval
    /\ keepAlive' = newKeepAliveInterval
    /\ UNCHANGED <<addrVars, address, connVars, callerPc, pubVars, codecVars>>

----------------------------------------------------------------------------
(* Callbacks delivered by the transport's loop thread *)

(* the loop thread delivers a callback only while it runs, one at a time *)
LoopDelivers == loopRunning /\ cbPc = "idle"

(* on_connect: sets the connected-condition *)
OnConnect ==
    /\ LoopDelivers
    /\ sock = "open"
    /\ connectEvent' = TRUE
    /\ onConnectSeen' = TRUE
    /\ sock' = "up"
    /\ UNCHANGED <<addrVars, address, keepAlive, loopRunning, callerPc, waited, attempts,
                   lastOutcome, pubVars, codecVars>>

ReasonCodes == {0, 1, 7}

(* on_disconnect(rc): logs and calls stats(); rc = 0 follows client.disconnect(),
   any other rc is a lost connection, after which the loop reconnects *)
OnDisconnect(rc) ==
    /\ LoopDelivers
    /\ \/ rc = 0 /\ sock = "closing"
       \/ rc # 0 /\ sock = "up"
    /\ sock' = IF rc = 0 THEN "closed" ELSE "open"
    /\ UNCHANGED <<addrVars, address, keepAlive, connectEvent, loopRunning, callerPc, waited,
                   attempts, onConnectSeen, lastOutcome, pubVars, codecVars>>

NextLifecycle ==
    \/ ConnectClear
    \/ ConnectStep
    \/ DisconnectTransport
    \/ DisconnectLoopStop
    \/ \E v \in KeepAliveValues : setKeepAliveInterval(v)
    \/ OnConnect
    \/ \E rc \in ReasonCodes : OnDisconnect(rc)

----------------------------------------------------------------------------
(* AbstractClient.on_publish, on the loop thread *)

Sum(f) == LET RECURSIVE S(_)
              S(D) == IF D = {} THEN 0
                      ELSE LET x == CHOOSE y \in D : TRUE IN f[x] + S(D \ {x})
          IN S(DOMAIN f)

TotalRegs == Sum([m \in Mids |-> Len(regOf[m])])

(* the lock excludes nobody *)
LockIgnored == TRUE

(* with self._messagesLock: the lock can be taken *)
LockFree == messagesLock = "free"

(* the transport delivers the acknowledgement of publish mid *)
OnPublishBegin(mid) ==
    /\ LoopDelivers
    /\ sock = "up"
    /\ cbPc' = "p_lock"
    /\ cbMid' = mid
    /\ ackCount' = [ackCount EXCEPT ![mid] = @ + 1]
    /\ UNCHANGED <<addrVars, address, keepAlive, connVars, callerPc, messagesLock, messages,
                   onPublishCallbacks, cbFound, cbError, regVars, callerCb, callerFound,
                   invoked, codecVars>>

OnPublishLock ==
    /\ cbPc = "p_lock"
    /\ LockFree
    /\ messagesLock' = "cb"
    /\ cbPc' = "p_check"
    /\ UNCHANGED <<addrVars, address, keepAlive, connVars, callerPc, messages,
                   onPublishCallbacks, cbMid, cbFound, cbError, callerMid, callerCb,
                   callerFound, invoked, regOf, ackCount, codecVars>>

(* self.messages = self.messages + 1; if mid in self._onPublishCallbacks *)
OnPublishCheck ==
    /\ cbPc = "p_check"
    /\ messages' = messages + 1
    /\ cbFound' = (cbMid \in DOMAIN onPublishCallbacks)
    /\ cbPc' = "p_act"
    /\ UNCHANGED <<addrVars, address, keepAlive, connVars, callerPc, messagesLock,
                   onPublishCallbacks, cbMid, cbError, callerMid, callerCb, callerFound,
                   invoked, regOf, ackCount, codecVars>>

(* midOnPublish = ....get(mid); del ...[mid]; midOnPublish() *)
OnPublishFound ==
    /\ cbPc = "p_act"
    /\ cbFound
    /\ cbMid \in DOMAIN onPublishCallbacks
    /\ onPublishCallbacks[cbMid] # None
    /\ onPublishCallbacks' = DictDel(onPublishCallbacks, cbMid)
    /\ invoked' = [invoked EXCEPT ![onPublishCallbacks[cbMid].id] = @ + 1]
    /\ messagesLock' = "free"
    /\ cbPc' = "idle"
    /\ UNCHANGED <<addrVars, address, keepAlive, connVars, callerPc, messages, cbMid,
                   cbFound, cbError, callerMid, callerCb, callerFound, regOf, ackCount,
                   codecVars>>

(* the entry found is None: del succeeds and None() raises TypeError; or the entry
   is gone: get() gives None and del raises KeyError. The with block releases the
   lock and the exception reaches the loop thread, which ends unless the transport
   catches it. *)
OnPublishRaises ==
    /\ cbPc = "p_act"
    /\ cbFound
    /\ \/ cbMid \notin DOMAIN onPublishCallbacks
       \/ cbMid \in DOMAIN onPublishCallbacks /\ onPublishCallbacks[cbMid] = None
    /\ onPublishCallbacks' = DictDel(onPublishCallbacks, cbMid)
    /\ cbError' = TRUE
    /\ messagesLock' = "free"
    /\ cbPc' = "idle"
    /\ \/ loopRunning' = loopRunning
       \/ loopRunning' = FALSE
    /\ UNCHANGED <<addrVars, address, keepAlive, connectEvent, sock, waited, attempts,
                   onConnectSeen, lastOutcome, callerPc, messages, cbMid, cbFound, callerMid,
                   callerCb, callerFound, invoked, regOf, ackCount, codecVars>>

(* else: self._onPublishCallbacks[mid] = None *)
OnPublishAbsent ==
    /\ cbPc = "p_act"
    /\ ~cbFound
    /\ onPublishCallbacks' = DictSet(onPublishCallbacks, cbMid, None)
    /\ messagesLock' = "free"
    /\ cbPc' = "idle"
    /\ UNCHANGED <<addrVars, address, keepAlive, connVars, callerPc, messages, cbMid,
                   cbFound, cbError, callerMid, callerCb, callerFound, invoked, regOf,
                   ackCount, codecVars>>

OnPublishStep ==
    \/ OnPublishLock
    \/ OnPublishCheck
    \/ OnPublishFound
    \/ OnPublishRaises
    \/ OnPublishAbsent

----------------------------------------------------------------------------
(* registerOrInvoke(publishId, callback), on the caller's thread *)

RegisterBegin(mid) ==
    /\ callerPc = "idle"
    /\ callerMid' = mid
    /\ callerCb' = TotalRegs + 1
    /\ regOf' = [regOf EXCEPT ![mid] = Append(@, TotalRegs + 1)]
    /\ callerPc' = "r_lock"
    /\ UNCHANGED <<addrVars, address, keepAlive, connVars, messagesLock, messages,
                   onPublishCallbacks, cbVars, callerFound, invoked, ackCount, codecVars>>

RegisterLock ==
    /\ callerPc = "r_lock"
    /\ LockFree
    /\ messagesLock' = "caller"
    /\ callerPc' = "r_check"
    /\ UNCHANGED <<addrVars, address, keepAlive, connVars, messages, onPublishCallbacks,
                   cbVars, regVars, callerCb, invoked, ackCount, codecVars>>

(* is the identifier present as the "already acknowledged" sentinel? *)
RegisterCheck ==
    /\ callerPc = "r_check"
    /\ callerFound' = (/\ callerMid \in DOMAIN onPublishCallbacks
                       /\ onPublishCallbacks[callerMid] = None)
    /\ callerPc' = "r_act"
    /\ UNCHANGED <<addrVars, address, keepAlive, connVars, messagesLock, messages,
                   onPublishCallbacks, cbVars, callerMid, callerCb, regOf, invoked,
                   ackCount, codecVars>>

(* invoke the callback at once and remove the sentinel *)
RegisterInvoke ==
    /\ callerPc = "r_act"
    /\ callerFound
    /\ onPublishCallbacks' = DictDel(onPublishCallbacks, callerMid)
    /\ invoked' = [invoked EXCEPT ![callerCb] = @ + 1]
    /\ messagesLock' = "free"
    /\ callerPc' = "idle"
    /\ UNCHANGED <<addrVars, address, keepAlive, connVars, messages, cbVars, regVars,
                   callerCb, ackCount, codecVars>>

(* store the callback for the acknowledgement to come *)
RegisterStore ==
    /\ callerPc = "r_act"
    /\ ~callerFound
    /\ onPublishCallbacks' = DictSet(onPublishCallbacks, callerMid, Callback(callerCb))
    /\ messagesLock' = "free"
    /\ callerPc' = "idle"
    /\ UNCHANGED <<addrVars, address, keepAlive, connVars, messages, cbVars, regVars,
                   callerCb, invoked, ackCount, codecVars>>

RegisterStep ==
    \/ RegisterLock
    \/ RegisterCheck
    \/ RegisterInvoke
    \/ RegisterStore

(* a client whose connect() has returned *)
InitPub ==
    /\ \E a \in ClientArgs :
         /\ inDomain = a[1]
         /\ inOrg = a[2]
         /\ inUrl = a[3]
         /\ addrResult = getBrokerAddress(a[1], a[2], a[3])
         /\ address = getBrokerAddress(a[1], a[2], a[3]).value
    /\ keepAlive = DefaultKeepAlive
    /\ connectEvent = TRUE
    /\ loopRunning = TRUE
    /\ sock = "up"
    /\ callerPc = "idle"
    /\ waited = 0
    /\ attempts = 1
    /\ onConnectSeen = TRUE
    /\ lastOutcome = Returned(0)
    /\ EmptyRegistries

(* the transport acknowledges a publish: at most maxAcks times, identifiers 1..maxMid *)
Acknowledge(maxMid, maxAcks) ==
    \E mid \in 1..maxMid : Sum(ackCount) < maxAcks /\ OnPublishBegin(mid)

(* the caller registers a callback: at most maxRegs times, identifiers 1..maxMid *)
Register(maxMid, maxRegs) ==
    \E mid \in 1..maxMid : TotalRegs < maxRegs /\ RegisterBegin(mid)

NextPub ==
    \/ Acknowledge(MaxMid, MaxAcks)
    \/ OnPublishStep
    \/ Register(MaxMid, MaxRegs)
    \/ RegisterStep

SpecPub == InitPub /\ [][NextPub]_vars

----------------------------------------------------------------------------
(* The message encoder registries of AbstractClient and HttpAbstractClient *)

KeyError(client, messageFormat) ==
    [kind |-> "raised", client |-> client, exc |-> "KeyError", format |-> messageFormat]

(* self._messageEncoderModules[messageFormat] *)
Subscript(client, d, messageFormat) ==
    IF messageFormat \in DOMAIN d
    THEN [kind |-> "returned", client |-> client, format |-> messageFormat,
          value |-> d[messageFormat]]
    ELSE KeyError(client, messageFormat)

setMessageEncoderModule(messageFormat, module) ==
    /\ callerPc = "idle"
    /\ messageEncoderModules' = DictSet(messageEncoderModules, messageFormat, module)
    /\ UNCHANGED <<addrVars, address, keepAlive, connVars, callerPc, pubVars,
                   httpEncoderModules, lookup>>

getMessageEncoderModule(messageFormat) ==
    /\ callerPc = "idle"
    /\ lookup' = Subscript("mqtt", messageEncoderModules, messageFormat)
    /\ UNCHANGED <<addrVars, address, keepAlive, connVars, callerPc, pubVars,
                   messageEncoderModules, httpEncoderModules>>

HttpSetMessageEncoderModule(messageFormat, module) ==
    /\ httpEncoderModules' = DictSet(httpEncoderModules, messageFormat, module)
    /\ UNCHANGED <<addrVars, address, keepAlive, connVars, callerPc, pubVars,
                   messageEncoderModules, lookup>>

HttpGetMessageEncoderModule(messageFormat) ==
    /\ lookup' = Subscript("http", httpEncoderModules, messageFormat)
    /\ UNCHANGED <<addrVars, address, keepAlive, connVars, callerPc, pubVars,
                   messageEncoderModules, httpEncoderModules>>

NextCodec ==
    \/ \E f \in Formats, m \in Modules : setMessageEncoderModule(f, m)
    \/ \E f \in Formats : getMessageEncoderModule(f)
    \/ \E f \in Formats, m \in Modules : HttpSetMessageEncoderModule(f, m)
    \/ \E f \in Formats : HttpGetMessageEncoderModule(f)

SpecCodec == Init /\ [][NextCodec]_vars

----------------------------------------------------------------------------
(* The connection, the acknowledgements the loop thread delivers and the
   registrations the caller makes *)

NextConn ==
    \/ NextLifecycle
    \/ Acknowledge(MaxConnMid, MaxConnAcks)
    \/ OnPublishStep
    \/ Register(MaxConnMid, MaxConnRegs)
    \/ RegisterStep

SpecConn == Init /\ [][NextConn]_vars

(* The caller's operations on the MQTT client and the connection callbacks *)

NextCaller ==
    \/ NextLifecycle
    \/ \E f \in Formats, m \in Modules : setMessageEncoderModule(f, m)
    \/ \E f \in Formats : getMessageEncoderModule(f)

SpecCaller == Init /\ [][NextCaller]_vars

(* The caller's thread keeps running inside connect() and the timed wait expires;
   the loop thread finishes the callback it is in. *)
FairSpecConn ==
    /\ Init
    /\ [][NextConn]_vars
    /\ WF_vars(ConnectStep)
    /\ WF_vars(OnPublishStep)

Next ==
    \/ NextLifecycle
    \/ NextPub
    \/ NextCodec

Spec == Init /\ [][Next]_vars

----------------------------------------------------------------------------
(* Properties *)

Given(v) == v \notin {None, Str("")}

(* C9: broker address resolution. With a complete broker URL the result is that
   URL whatever organization and domain are; without one, and with both
   organization and domain, it is organization + ".messaging." + domain; without
   a URL and with organization or domain missing it raises ConfigurationException
   and produces no address. *)
C9_BrokerAddressResolution ==
    addrResult # Pending =>
      /\ Given(inUrl) => addrResult = [kind |-> "returned", value |-> inUrl.val]
      /\ (~Given(inUrl) /\ Given(inOrg) /\ Given(inDomain)) =>
            addrResult = [kind |-> "returned",
                          value |-> inOrg.val \o ".messaging." \o inDomain.val]
      /\ (~Given(inUrl) /\ (~Given(inOrg) \/ ~Given(inDomain))) =>
            addrResult = [kind |-> "raised", exc |-> "ConfigurationException"]
      /\ (inDomain = Str("x.com") /\ inOrg = Str("org1") /\ inUrl = None) =>
            addrResult = [kind |-> "returned", value |-> "org1.messaging.x.com"]

C9_Witness ==
    /\ inDomain = Str("x.com") /\ inOrg = Str("org1") /\ ~Given(inUrl)
    /\ addrResult = [kind |-> "returned", value |-> "org1.messaging.x.com"]

(* both steps of publish identifier m have completed *)
Settled(m) ==
    /\ ~(callerPc \in {"r_lock", "r_check", "r_act"} /\ callerMid = m)
    /\ ~(cbPc # "idle" /\ cbMid = m)

(* C1: a publish identifier with exactly one callback registration and exactly
   one acknowledgement, in either order and under any interleaving of the two
   threads: once both have completed, the callback has been invoked exactly once
   and the registry holds no entry for the identifier. *)
C1_ExactlyOnce ==
    \A m \in Mids :
        (Len(regOf[m]) = 1 /\ ackCount[m] = 1 /\ Settled(m)) =>
            /\ invoked[regOf[m][1]] = 1
            /\ m \notin DOMAIN onPublishCallbacks

C1_Witness ==
    \E m \in Mids :
        /\ Len(regOf[m]) = 1 /\ ackCount[m] = 1 /\ Settled(m)
        /\ invoked[regOf[m][1]] = 1
        /\ m \notin DOMAIN onPublishCallbacks

(* C10: on_publish never invokes the "already acknowledged" sentinel, so it
   completes without error, and no callback is invoked more than once. *)
C10_NeverInvokesSentinel ==
    /\ ~cbError
    /\ \A c \in Callbacks : invoked[c] <= 1

InConnect ==
    callerPc \in {"c_connect", "c_loop_start", "c_wait", "c_timeout", "c_timeout_raise",
                  "c_except", "c_except_raise"}

Contains(parts, part) == \E i \in 1..Len(parts) : parts[i] = part

(* C2: connect() never blocks forever. Every connect() in progress ends; it makes
   one attempt; it returns normally only if on_connect ran during it; the wait is
   given up only after ConnectTimeout units; and when it fails it raises
   ConnectionException with a reason that contains the broker address. *)
C2_ConnectTerminates ==
    /\ [](lastOutcome.kind = "returned" => onConnectSeen)
    /\ [](lastOutcome.kind = "raised" =>
            /\ lastOutcome.exc = "ConnectionException"
            /\ Contains(lastOutcome.reason, address)
            /\ attempts = 1)
    /\ [](attempts <= 1)
    /\ [](callerPc \in {"c_timeout", "c_timeout_raise"} => waited = ConnectTimeout)
    /\ (InConnect ~> callerPc = "idle")

C2_Witness ==
    /\ callerPc = "idle"
    /\ ~onConnectSeen
    /\ attempts = 1
    /\ lastOutcome = ConnectionException(TimeoutReason(address))

(* C3: whenever connect() has raised, after the wait timed out or after the
   transport's connect call raised socket.error, the background loop is not
   running. *)
C3_FailedConnectStopsLoop ==
    lastOutcome.kind = "raised" => ~loopRunning

C3_Witness ==
    /\ callerPc = "idle"
    /\ lastOutcome = ConnectionException(SocketErrorReason(address, "socket.error"))
    /\ ~loopRunning

(* C4: on_connect sets the connected-condition; a caller blocked in the wait
   with the condition set leaves the wait only by returning normally from
   connect(), with the loop left as it is; and it does leave it. *)
C4_OnConnectReleasesWaiter ==
    /\ [][OnConnect => connectEvent']_vars
    /\ [][(callerPc = "c_wait" /\ connectEvent /\ callerPc' # "c_wait") =>
            (/\ callerPc' = "idle"
             /\ lastOutcome'.kind = "returned"
             /\ loopRunning' = loopRunning)]_vars
    /\ ((callerPc = "c_wait" /\ connectEvent) ~>
            (callerPc = "idle" /\ lastOutcome.kind = "returned"))

C4_Witness ==
    /\ callerPc = "idle"
    /\ lastOutcome = [kind |-> "returned", blocked |-> TRUE, beforeTimeout |-> TRUE]
    /\ connectEvent
    /\ loopRunning

CallbackDelivered ==
    \/ OnConnect
    \/ \E rc \in ReasonCodes : OnDisconnect(rc)
    \/ \E mid \in Mids : OnPublishBegin(mid)

(* C5: disconnect() stops the loop only after it has told the transport to close
   the connection; once disconnect() has returned, and until a later connect(),
   the loop is not running, no callback is in progress and none is delivered. *)
C5_DisconnectStopsLoop ==
    /\ [](callerPc = "d_stop" => sock \in {"closed", "closing"})
    /\ [](lastOutcome.kind = "disconnected" => (~loopRunning /\ cbPc = "idle"))
    /\ [][lastOutcome.kind = "disconnected" => ~CallbackDelivered]_vars

C5_Witness ==
    /\ callerPc = "idle"
    /\ lastOutcome.kind = "disconnected"
    /\ connectEvent
    /\ sock = "closing"

(* C6: right after on_disconnect has run, for any reason code, the
   connected-condition is not set. *)
C6_OnDisconnectClears ==
    [][(\E rc \in ReasonCodes : OnDisconnect(rc)) => ~connectEvent']_vars

(* C7 as stated: the connected-condition changes only in on_connect and
   on_disconnect. *)
C7_OnlyCallbacksChangeEvent ==
    [][connectEvent' # connectEvent =>
         (OnConnect \/ \E rc \in ReasonCodes : OnDisconnect(rc))]_vars

(* C7, amended: the connected-condition changes only in on_connect, in
   on_disconnect, or in the clear that connect() itself starts with; every other
   step of the caller's thread leaves it unchanged. *)
C7_OnlyCallbacksOrConnectClear ==
    [][connectEvent' # connectEvent =>
         (OnConnect \/ (\E rc \in ReasonCodes : OnDisconnect(rc)) \/ ConnectClear)]_vars

C7_Witness ==
    /\ callerPc = "d_stop"
    /\ connectEvent
    /\ keepAlive # DefaultKeepAlive
    /\ "json" \in DOMAIN messageEncoderModules

(* C8: a lookup of a format that was never registered fails with the missing
   encoder or decoder error carrying the format name, on both clients; a lookup
   of a registered format returns the module stored under it. *)
C8_MissingCodecError ==
    /\ lookup.kind = "raised" =>
          /\ lookup.exc \in {"MissingMessageEncoderException",
                             "MissingMessageDecoderException"}
          /\ lookup.format \in Formats
    /\ lookup.kind = "returned" => lookup.value \in Modules

====
